---- MODULE Spec2Model ----
(***************************************************************************)
(* A model of src/src/main.ts: the CircleIntersection class (bouncing      *)
(* circles and the markers at their pairwise intersection points) and the  *)
(* page script that drives it (constructor, animation frames, the resize   *)
(* listener, the parameter panel).                                         *)
(*                                                                         *)
(* Numbers.  The program computes in floating point; the model computes in *)
(* exact arithmetic on the values it samples.                              *)
(*   - lengths are integers (pixels);                                      *)
(*   - Math.random() returns num / RandDen, 0 <= num < RandDen;            *)
(*   - the random direction is one whose cosine and sine are multiples of  *)
(*     1/5 (the 3-4-5 triangle), so velocities are integers for speeds     *)
(*     that are multiples of 5;                                            *)
(*   - Math.hypot's result is kept by its square (a non-negative real is   *)
(*     determined by its square);                                          *)
(*   - the coordinates drawIntersection computes are kept exactly, as      *)
(*     numbers (p + q * sqrt(rad)) / den, or as NaN.                       *)
(* A falsy number field (w, h: undefined or 0) is the number 0: the code   *)
(* only ever tests `!this.w`.                                              *)
(***************************************************************************)
EXTENDS Integers, Sequences, FiniteSets, TLC

VARIABLES
    phase,                  \* "new" | "running" | "crashed": the page script
    cnv,                    \* this.cnv is set
    ctx,                    \* this.ctx is set (getContext may return null)
    w, h,                   \* this.w, this.h (0: falsy)
    hasCircles,             \* this.circles is set
    circles,                \* this.circles
    circlesNum,             \* this.circlesNum
    circleSpeed,            \* this.circleSpeed
    intersectionFillColor,  \* this.intersectionFillColor
    intersectionDotRadius,  \* this.intersectionDotRadius, a rational
    pending,                \* ids of the animation-frame callbacks requested
    disks,                  \* drawCircle calls of updateCircles since the last clear
    markers,                \* drawCircle calls of drawIntersection since the last clear
    created,                \* history: the circle set as createCircles built it
    builtFrom,              \* history: the count and speed createCircles read
    age,                    \* history: updateCircles runs since createCircles
    lastErr                 \* history: what the last call threw ("": nothing)

vars == <<phase, cnv, ctx, w, h, hasCircles, circles, circlesNum, circleSpeed,
          intersectionFillColor, intersectionDotRadius, pending, disks,
          markers, created, builtFrom, age, lastErr>>

-----------------------------------------------------------------------------
(* Bounds and sampled inputs *)

\* updateCircles runs allowed on one circle set
MaxTicks == 4

\* <<innerWidth, innerHeight>>
Viewports == {<<12, 12>>, <<24, 12>>, <<0, 12>>}
\* values the panel's number fields supply
CountInputs == {0, 3}
SpeedInputs == {-5, 0, 5}
FillColors == {"#ffffff", "#ff0000"}

\* a value of Math.random(): the rational num / den, in [0, 1)
Rand(k) == [num |-> k, den |-> 4]
\* a direction Math.random() * 2 * PI whose cosine is c / 5 and sine s / 5
Angle(c, s) == [cos5 |-> c, sin5 |-> s]

\* The five Math.random() values one iteration of createCircles' loop reads:
\* the angle (line 80), the hue (83), the radius (84), xPos (85), yPos (86).
Draws ==
    { [angle |-> Angle(3, 4),  hue |-> "hsla(0)",   radius |-> Rand(3), x |-> Rand(0), y |-> Rand(0)],
      [angle |-> Angle(4, -3), hue |-> "hsla(120)", radius |-> Rand(1), x |-> Rand(2), y |-> Rand(1)],
      [angle |-> Angle(3, -4), hue |-> "hsla(240)", radius |-> Rand(0), x |-> Rand(2), y |-> Rand(0)] }

\* the draws of a whole createCircles call: one per loop iteration
DrawSeqs(n) == [1..n -> Draws]

-----------------------------------------------------------------------------
(* Arithmetic *)

Min(a, b) == IF a <= b THEN a ELSE b
Max(a, b) == IF a >= b THEN a ELSE b
Sq(a) == a * a

-----------------------------------------------------------------------------
(* The object: the fields of a CircleIntersection, with the history         *)
(* variables and the exception a method call ended with ("" when none).     *)

Self ==
    [cnv |-> cnv, ctx |-> ctx, w |-> w, h |-> h, hasCircles |-> hasCircles,
     circles |-> circles, circlesNum |-> circlesNum, circleSpeed |-> circleSpeed,
     intersectionFillColor |-> intersectionFillColor,
     intersectionDotRadius |-> intersectionDotRadius,
     pending |-> pending, disks |-> disks, markers |-> markers,
     created |-> created, builtFrom |-> builtFrom, age |-> age,
     err |-> "", ret |-> 0]

Throw(s, msg) == [s EXCEPT !.err = msg]

\* an exception skips the statements that follow
Threw(s) == s.err # ""

-----------------------------------------------------------------------------
(* The methods of CircleIntersection *)

createCanvas(s, gotCtx) == [s EXCEPT !.cnv = TRUE, !.ctx = gotCtx]

\* assigning a canvas's width or height clears its bitmap
setCanvasSize(s, innerWidth, innerHeight) ==
    IF ~s.cnv THEN Throw(s, "no cnv")
    ELSE [s EXCEPT !.w = innerWidth, !.h = innerHeight,
                   !.disks = <<>>, !.markers = <<>>]

getRandomFromRange(min, max, random) ==
    (random.num * max) \div random.den - min + min

newCircle(s, minRadius, maxRadius, d) ==
    [color     |-> d.hue,
     radius    |-> getRandomFromRange(minRadius, maxRadius, d.radius),
     xPos      |-> getRandomFromRange(maxRadius, s.w - maxRadius, d.x),
     yPos      |-> getRandomFromRange(maxRadius, s.h - maxRadius, d.y),
     velocityX |-> (d.angle.cos5 * s.circleSpeed) \div 5,
     velocityY |-> (d.angle.sin5 * s.circleSpeed) \div 5]

\* the number of iterations of `for (let i = 0; i < this.circlesNum; i++)`
LoopCount(n) == Max(0, n)

createCircles(s, draws) ==
    IF s.w = 0 \/ s.h = 0 THEN Throw(s, "no h or w")
    ELSE
      LET smallerSide == Min(s.w, s.h)
          maxRadius == smallerSide \div 3
          minRadius == maxRadius \div 2
          built == [i \in 1..LoopCount(s.circlesNum) |->
                       newCircle(s, minRadius, maxRadius, draws[i])]
      IN [s EXCEPT !.intersectionDotRadius = [num |-> minRadius, den |-> 20],
                   !.hasCircles = TRUE,
                   !.circles = built,
                   !.created = built,
                   !.builtFrom = [circlesNum |-> s.circlesNum,
                                  circleSpeed |-> s.circleSpeed,
                                  w |-> s.w, h |-> s.h],
                   !.age = 0]

\* a bounce off the left wall only
BounceXLeftOnly(cw, circle) ==
    circle.xPos < circle.radius /\ circle.velocityX < 0

BounceX(cw, circle) ==
    \/ (circle.xPos + circle.radius > cw /\ circle.velocityX > 0)
    \/ (circle.xPos < circle.radius /\ circle.velocityX < 0)

\* a bounce off every wall the disk is beyond, whatever its direction
BounceYAnyDirection(ch, circle) ==
    \/ circle.yPos + circle.radius > ch
    \/ circle.yPos < circle.radius

BounceY(ch, circle) ==
    \/ (circle.yPos + circle.radius > ch /\ circle.velocityY > 0)
    \/ (circle.yPos < circle.radius /\ circle.velocityY < 0)

\* a bounce that copies the other axis' component
checkBounceSwapped(cw, ch, circle) ==
    [circle EXCEPT
        !.velocityX = IF BounceX(cw, circle) THEN -circle.velocityY ELSE circle.velocityX,
        !.velocityY = IF BounceY(ch, circle) THEN -circle.velocityX ELSE circle.velocityY]

\* checkBounce past its guard (`if (!this.w || !this.h) throw`)
checkBounce(cw, ch, circle) ==
    [circle EXCEPT
        !.velocityX = IF BounceX(cw, circle) THEN -circle.velocityX ELSE circle.velocityX,
        !.velocityY = IF BounceY(ch, circle) THEN -circle.velocityY ELSE circle.velocityY]

\* a move that also wears the circle down
MoveShrinking(circle) ==
    [circle EXCEPT !.xPos = circle.xPos + circle.velocityX,
                   !.yPos = circle.yPos + circle.velocityY,
                   !.radius = Max(0, circle.radius - 1)]

\* lines 110-111
Move(circle) ==
    [circle EXCEPT !.xPos = circle.xPos + circle.velocityX,
                   !.yPos = circle.yPos + circle.velocityY]

Disk(circle) ==
    [x |-> circle.xPos, y |-> circle.yPos, radius |-> circle.radius,
     fillColor |-> circle.color, strokeColor |-> "white"]

\* lines 125-140: the call is kept in the list of what the canvas shows
drawCircle(s, call) ==
    IF ~s.ctx THEN Throw(s, "no ctx")
    ELSE [s EXCEPT !.disks = Append(s.disks, call)]

\* a loop body that moves the circle first and tests the bounce afterwards
updateCirclesMoveFirst(s) ==
    IF ~s.hasCircles THEN Throw(s, "no circles")
    ELSE IF ~s.ctx THEN Throw(s, "no ctx")
    ELSE IF Len(s.circles) > 0 /\ (s.w = 0 \/ s.h = 0) THEN Throw(s, "no h or w")
    ELSE
      LET moved == [i \in 1..Len(s.circles) |->
                       checkBounce(s.w, s.h, Move(s.circles[i]))]
      IN [s EXCEPT !.circles = moved,
                   !.disks = s.disks \o [i \in 1..Len(moved) |-> Disk(moved[i])],
                   !.age = s.age + 1]

\* checkBounce throws in the loop's first iteration, before anything is changed
updateCircles(s) ==
    IF ~s.hasCircles THEN Throw(s, "no circles")
    ELSE IF ~s.ctx THEN Throw(s, "no ctx")
    ELSE IF Len(s.circles) > 0 /\ (s.w = 0 \/ s.h = 0) THEN Throw(s, "no h or w")
    ELSE
      LET moved == [i \in 1..Len(s.circles) |->
                       Move(checkBounce(s.w, s.h, s.circles[i]))]
      IN [s EXCEPT !.circles = moved,
                   !.disks = s.disks \o [i \in 1..Len(moved) |-> Disk(moved[i])],
                   !.age = s.age + 1]

-----------------------------------------------------------------------------
(* drawIntersection.  With a = sideA, n = sideC^2, N = a^2 - b^2 + n:       *)
(*   cosineA = N / (2 a sqrt(n)), kept as N and the denominator's square;   *)
(*   Math.acos is NaN unless -1 <= cosineA <= 1 (also for N/0 and 0/0);     *)
(*   cos(angleCorrection) = dx / sqrt(n), sin(angleCorrection) = dy/sqrt(n);*)
(*   sin(angleOfRotation) = S / (2 a sqrt(n)), S = sqrt(4 a^2 n - N^2);     *)
(* so a point is circle + ((dx N -+ dy S) / 2n, (dy N +- dx S) / 2n),       *)
(* kept as the offsets (p + q * sqrt(rad)) / den with rad = S^2.            *)

\* the cosine of the angle opposite sideC
cosineC(sideA, sideB, cSquare) ==
    [num |-> Sq(sideA) + Sq(sideB) - cSquare, denSq |-> 4 * Sq(sideA) * cSquare]

cosineA(sideA, sideB, cSquare) ==
    [num |-> Sq(sideA) - Sq(sideB) + cSquare, denSq |-> 4 * Sq(sideA) * cSquare]

\* Math.acos(c) is a number
AcosDefined(c) == c.denSq # 0 /\ Sq(c.num) <= c.denSq

NaNPoint == [nan |-> TRUE,  cx |-> 0, cy |-> 0, xp |-> 0, xq |-> 0,
             yp |-> 0, yq |-> 0, den |-> 1, rad |-> 0, divByZero |-> FALSE]

\* sign = -1: angleCorrection - angleOfRotation; sign = 1: the sum
Point(circle, cSquare, dx, dy, c, sign) ==
    IF ~AcosDefined(c) THEN [NaNPoint EXCEPT !.divByZero = (c.denSq = 0)]
    ELSE [nan |-> FALSE, cx |-> circle.xPos, cy |-> circle.yPos,
          xp |-> dx * c.num, xq |-> -sign * dy,
          yp |-> dy * c.num, yq |-> sign * dx,
          den |-> 2 * cSquare, rad |-> c.denSq - Sq(c.num),
          divByZero |-> FALSE]

\* the two drawCircle calls of drawIntersection (lines 211-224)
drawIntersection(s, sideA, sideB, cSquare, dx, dy, circle) ==
    LET c == cosineA(sideA, sideB, cSquare)
        call(sign) == [point |-> Point(circle, cSquare, dx, dy, c, sign),
                       radius |-> s.intersectionDotRadius,
                       fillColor |-> s.intersectionFillColor,
                       strokeColor |-> "#ffffff"]
    IN <<call(-1), call(1)>>

\* the test with < for <=
OverlapStrict(circleA, circleB, distSq) ==
    /\ circleA.radius + circleB.radius >= 0
    /\ distSq < Sq(circleA.radius + circleB.radius)

\* distance <= circleA.radius + circleB.radius, distance = sqrt(distSq) >= 0
Overlap(circleA, circleB, distSq) ==
    /\ circleA.radius + circleB.radius >= 0
    /\ distSq <= Sq(circleA.radius + circleB.radius)

DistSq(circleA, circleB) ==
    Sq(circleB.xPos - circleA.xPos) + Sq(circleB.yPos - circleA.yPos)

\* the pairs the two loops of getIntersection visit, in the order they do
RECURSIVE PairsFrom(_, _, _)
PairsFrom(i, j, n) ==
    IF i > n THEN <<>>
    ELSE IF j > n THEN PairsFrom(i + 1, i + 2, n)
    ELSE <<<<i, j>>>> \o PairsFrom(i, j + 1, n)

Pairs(n) == PairsFrom(1, 2, n)

RECURSIVE Flatten(_)
Flatten(ss) == IF ss = <<>> THEN <<>> ELSE Head(ss) \o Flatten(Tail(ss))

PairCalls(s, p) ==
    LET circleA == s.circles[p[1]]
        circleB == s.circles[p[2]]
        dx == circleB.xPos - circleA.xPos
        dy == circleB.yPos - circleA.yPos
        distSq == DistSq(circleA, circleB)
    IN IF Overlap(circleA, circleB, distSq)
       THEN LET calls == drawIntersection(s, circleA.radius, circleB.radius,
                                          distSq, dx, dy, circleA)
            IN [k \in 1..Len(calls) |->
                   [pair |-> p, point |-> calls[k].point, radius |-> calls[k].radius,
                    fillColor |-> calls[k].fillColor,
                    strokeColor |-> calls[k].strokeColor]]
       ELSE <<>>

\* drawCircle throws "no ctx" at the first marker, before anything is drawn
getIntersection(s) ==
    IF ~s.hasCircles THEN Throw(s, "no circles")
    ELSE
      LET ps == Pairs(Len(s.circles))
          calls == Flatten([k \in 1..Len(ps) |-> PairCalls(s, ps[k])])
      IN IF calls # <<>> /\ ~s.ctx THEN Throw(s, "no ctx")
         ELSE [s EXCEPT !.markers = s.markers \o calls]

\* guards that return instead of throwing
clearCanvasSilent(s) ==
    IF ~s.ctx \/ s.w = 0 \/ s.h = 0 THEN s
    ELSE [s EXCEPT !.disks = <<>>, !.markers = <<>>]

clearCanvas(s) ==
    IF ~s.ctx THEN Throw(s, "no ctx")
    ELSE IF s.w = 0 \/ s.h = 0 THEN Throw(s, "no h or w")
    ELSE [s EXCEPT !.disks = <<>>, !.markers = <<>>]

\* requestAnimationFrame returns an id no pending callback has
FreshId(ids) == CHOOSE id \in 1..(Cardinality(ids) + 1) : id \notin ids

requestAnimationFrame(s) ==
    LET id == FreshId(s.pending)
    IN [s EXCEPT !.pending = s.pending \cup {id}, !.ret = id]

cancelAnimationFrame(s, id) == [s EXCEPT !.pending = s.pending \ {id}]

\* a frame that looks for intersections before it moves the circles
updateAnimationDetectFirst(s) ==
    LET cleared == clearCanvas(s)
        marked == IF Threw(cleared) THEN cleared ELSE getIntersection(cleared)
        updated == IF Threw(marked) THEN marked ELSE updateCircles(marked)
    IN IF Threw(updated) THEN updated ELSE requestAnimationFrame(updated)

updateAnimation(s) ==
    LET cleared == clearCanvas(s)
        updated == IF Threw(cleared) THEN cleared ELSE updateCircles(cleared)
        marked == IF Threw(updated) THEN updated ELSE getIntersection(updated)
    IN IF Threw(marked) THEN marked ELSE requestAnimationFrame(marked)

setCirclesNum(s, n) == [s EXCEPT !.circlesNum = n]

\* a setter that applies the new speed to the circles that exist
setCircleSpeedApplied(s, v) ==
    [s EXCEPT !.circleSpeed = v,
              !.circles = [i \in 1..Len(s.circles) |->
                             [s.circles[i] EXCEPT !.velocityX = v, !.velocityY = 0]]]

setCircleSpeed(s, v) == [s EXCEPT !.circleSpeed = v]

setIntersectionFillColor(s, c) == [s EXCEPT !.intersectionFillColor = c]

-----------------------------------------------------------------------------
(* The page script: `new CircleIntersection(defaultParameters)`, the frames *)
(* the browser runs, the resize listener and the panel's callbacks.         *)

Commit(s) ==
    /\ cnv' = s.cnv
    /\ ctx' = s.ctx
    /\ w' = s.w
    /\ h' = s.h
    /\ hasCircles' = s.hasCircles
    /\ circles' = s.circles
    /\ circlesNum' = s.circlesNum
    /\ circleSpeed' = s.circleSpeed
    /\ intersectionFillColor' = s.intersectionFillColor
    /\ intersectionDotRadius' = s.intersectionDotRadius
    /\ pending' = s.pending
    /\ disks' = s.disks
    /\ markers' = s.markers
    /\ created' = s.created
    /\ builtFrom' = s.builtFrom
    /\ age' = s.age
    /\ lastErr' = s.err

NoBuild == [circlesNum |-> 0, circleSpeed |-> 0, w |-> 0, h |-> 0]

Init ==
    /\ phase = "new"
    /\ cnv = FALSE
    /\ ctx = FALSE
    /\ w = 0
    /\ h = 0
    /\ hasCircles = FALSE
    /\ circles = <<>>
    /\ circlesNum = 0
    /\ circleSpeed = 0
    /\ intersectionFillColor = "#ffffff"
    /\ intersectionDotRadius = [num |-> 1, den |-> 1]
    /\ pending = {}
    /\ disks = <<>>
    /\ markers = <<>>
    /\ created = <<>>
    /\ builtFrom = NoBuild
    /\ age = 0
    /\ lastErr = ""

\* lines 34-44: the fields, then createCanvas, setCanvasSize, createCircles,
\* updateAnimation
constructor(s, num, speed, fill, gotCtx, innerWidth, innerHeight, draws) ==
    LET fields == [s EXCEPT !.intersectionFillColor = fill,
                            !.intersectionDotRadius = [num |-> 1, den |-> 1],
                            !.circleSpeed = speed,
                            !.circlesNum = num]
        sized == setCanvasSize(createCanvas(fields, gotCtx), innerWidth, innerHeight)
        built == IF Threw(sized) THEN sized ELSE createCircles(sized, draws)
    IN IF Threw(built) THEN built ELSE updateAnimation(built)

\* line 259, with parameters as valid as defaultParameters (lines 253-257:
\* a positive count, a non-negative speed); an exception in the constructor
\* ends the script: no listener, no panel
Construct ==
    /\ phase = "new"
    /\ \E num \in {n \in CountInputs : n > 0}, speed \in {v \in SpeedInputs : v >= 0},
          fill \in {"#ffffff"}, gotCtx \in BOOLEAN, inner \in Viewports :
         \E draws \in DrawSeqs(LoopCount(num)) :
           LET s == constructor(Self, num, speed, fill, gotCtx,
                                inner[1], inner[2], draws)
           IN /\ Commit(s)
              /\ phase' = IF s.err = "" THEN "running" ELSE "crashed"

\* the browser runs a requested animation-frame callback (line 237)
Tick ==
    /\ phase = "running"
    /\ age < MaxTicks
    /\ \E id \in pending :
         Commit(updateAnimation(cancelAnimationFrame(Self, id)))
    /\ UNCHANGED phase

\* lines 46-49
resizeListener(s, innerWidth, innerHeight, draws) ==
    LET sized == setCanvasSize(s, innerWidth, innerHeight)
    IN IF Threw(sized) THEN sized ELSE createCircles(sized, draws)

Resize ==
    /\ phase = "running"
    /\ \E inner \in Viewports :
         \E draws \in DrawSeqs(LoopCount(circlesNum)) :
           Commit(resizeListener(Self, inner[1], inner[2], draws))
    /\ UNCHANGED phase

\* lines 268-270
OnChangeCirclesNum ==
    /\ phase = "running"
    /\ \E value \in CountInputs : Commit(setCirclesNum(Self, value))
    /\ UNCHANGED phase

\* lines 277-279
OnChangeCircleSpeed ==
    /\ phase = "running"
    /\ \E value \in SpeedInputs : Commit(setCircleSpeed(Self, value))
    /\ UNCHANGED phase

\* lines 286-288
OnChangeFillColor ==
    /\ phase = "running"
    /\ \E value \in FillColors :
         Commit(setIntersectionFillColor(Self, value))
    /\ UNCHANGED phase

\* a panel update that leaves the frame it requested pending
onUpdateCanvasNoCancel(s, draws) ==
    LET built == createCircles(s, draws)
    IN IF Threw(built) THEN built ELSE updateAnimation(built)

\* lines 292-296
onUpdateCanvas(s, draws) ==
    LET built == createCircles(s, draws)
        drawn == IF Threw(built) THEN built ELSE updateAnimation(built)
    IN IF Threw(drawn) THEN drawn ELSE cancelAnimationFrame(drawn, drawn.ret)

OnUpdateCanvas ==
    /\ phase = "running"
    /\ \E draws \in DrawSeqs(LoopCount(circlesNum)) :
         Commit(onUpdateCanvas(Self, draws))
    /\ UNCHANGED phase

Next ==
    \/ Construct
    \/ Tick
    \/ Resize
    \/ OnChangeCirclesNum
    \/ OnChangeCircleSpeed
    \/ OnChangeFillColor
    \/ OnUpdateCanvas

Spec == Init /\ [][Next]_vars

-----------------------------------------------------------------------------
(* The class on its own: a caller invokes the public methods of an object  *)
(* whose constructor has set the plain fields (lines 34-39) and nothing    *)
(* else, in any order.                                                     *)

\* what a caller lets build up: updateCircles runs on one circle set,
\* pending callbacks, entries of a list of drawCircle calls
MaxMoves == 3
MaxPending == 1
MaxDrawn == 3

Indices == 1..Len(circles)

InitAPI ==
    /\ phase = "api"
    /\ cnv = FALSE
    /\ ctx = FALSE
    /\ w = 0
    /\ h = 0
    /\ hasCircles = FALSE
    /\ circles = <<>>
    /\ circlesNum = 1
    /\ circleSpeed = 5
    /\ intersectionFillColor = "#ffffff"
    /\ intersectionDotRadius = [num |-> 1, den |-> 1]
    /\ pending = {}
    /\ disks = <<>>
    /\ markers = <<>>
    /\ created = <<>>
    /\ builtFrom = NoBuild
    /\ age = 0
    /\ lastErr = ""

CallCreateCanvas ==
    /\ phase = "api"
    /\ \E gotCtx \in BOOLEAN : Commit(createCanvas(Self, gotCtx))
    /\ UNCHANGED phase

CallSetCanvasSize ==
    /\ phase = "api"
    /\ \E inner \in Viewports : Commit(setCanvasSize(Self, inner[1], inner[2]))
    /\ UNCHANGED phase

CallCreateCircles ==
    /\ phase = "api"
    /\ \E draws \in DrawSeqs(LoopCount(circlesNum)) : Commit(createCircles(Self, draws))
    /\ UNCHANGED phase

CallUpdateCircles ==
    /\ phase = "api"
    /\ age < MaxMoves
    /\ Len(disks) < MaxDrawn
    /\ Commit(updateCircles(Self))
    /\ UNCHANGED phase

\* checkBounce(this.circles[i])
CallCheckBounce ==
    /\ phase = "api"
    /\ \E i \in Indices :
         Commit(IF w = 0 \/ h = 0 THEN Throw(Self, "no h or w")
                ELSE [Self EXCEPT !.circles[i] = checkBounce(w, h, circles[i])])
    /\ UNCHANGED phase

CallDrawCircle ==
    /\ phase = "api"
    /\ Len(disks) < MaxDrawn
    /\ Commit(drawCircle(Self, [x |-> 0, y |-> 0, radius |-> 1,
                                fillColor |-> "#ffffff", strokeColor |-> "white"]))
    /\ UNCHANGED phase

CallGetIntersection ==
    /\ phase = "api"
    /\ Len(markers) < MaxDrawn
    /\ Commit(getIntersection(Self))
    /\ UNCHANGED phase

CallClearCanvas ==
    /\ phase = "api"
    /\ Commit(clearCanvas(Self))
    /\ UNCHANGED phase

CallUpdateAnimation ==
    /\ phase = "api"
    /\ age < MaxMoves
    /\ Cardinality(pending) < MaxPending
    /\ Commit(updateAnimation(Self))
    /\ UNCHANGED phase

\* a callback requested by updateAnimation runs
FrameCallback ==
    /\ phase = "api"
    /\ age < MaxMoves
    /\ \E id \in pending : Commit(updateAnimation(cancelAnimationFrame(Self, id)))
    /\ UNCHANGED phase

NextAPI ==
    \/ CallCreateCanvas
    \/ CallSetCanvasSize
    \/ CallCreateCircles
    \/ CallUpdateCircles
    \/ CallCheckBounce
    \/ CallDrawCircle
    \/ CallGetIntersection
    \/ CallClearCanvas
    \/ CallUpdateAnimation
    \/ FrameCallback

SpecAPI == InitAPI /\ [][NextAPI]_vars

-----------------------------------------------------------------------------
(* What the claims speak of *)

SpeedSq(circle) == Sq(circle.velocityX) + Sq(circle.velocityY)

Abs(a) == IF a < 0 THEN -a ELSE a

\* the canvas shows a whole frame of the current circle set: updateCircles
\* has run on it, and getIntersection after it
FrameShown == phase = "running" /\ age > 0 /\ w # 0 /\ h # 0

\* the radius range and the viewport the current set was built for
BuiltMaxRadius == Min(builtFrom.w, builtFrom.h) \div 3
BuiltMinRadius == BuiltMaxRadius \div 2

\* the claims' overlap test, on the current positions
Touching(i, j) ==
    DistSq(circles[i], circles[j]) <= Sq(circles[i].radius + circles[j].radius)

MarkersOf(i, j) == {k \in 1..Len(markers) : markers[k].pair = <<i, j>>}

\* the point (p + q sqrt(rad)) / den off (cx, cy) lies at distance r from
\* (ux, uy): the irrational part of the squared distance vanishes and the
\* rational part is r^2
OnCircle(pt, ux, uy, r) ==
    LET a == pt.xp + pt.den * (pt.cx - ux)
        b == pt.yp + pt.den * (pt.cy - uy)
    IN /\ ~pt.nan
       /\ (pt.rad = 0 \/ a * pt.xq + b * pt.yq = 0)
       /\ Sq(a) + Sq(b) + (Sq(pt.xq) + Sq(pt.yq)) * pt.rad = Sq(r) * Sq(pt.den)

-----------------------------------------------------------------------------
(* C1: between two regenerations every circle keeps the speed it was       *)
(* created with: velocityX^2 + velocityY^2 is unchanged, and so are        *)
(* |velocityX| and |velocityY|; only the signs flip.                       *)
C1_SpeedInvariant ==
    hasCircles =>
      /\ Len(circles) = Len(created)
      /\ \A i \in Indices :
           /\ SpeedSq(circles[i]) = SpeedSq(created[i])
           /\ Abs(circles[i].velocityX) = Abs(created[i].velocityX)
           /\ Abs(circles[i].velocityY) = Abs(created[i].velocityY)

\* a circle moving on both axes has bounced: one component flipped
C1_Witness ==
    /\ hasCircles
    /\ age > 1
    /\ \E i \in Indices :
         /\ circles[i].velocityX = -created[i].velocityX
         /\ circles[i].velocityX # 0
         /\ circles[i].velocityY = created[i].velocityY
         /\ circles[i].velocityY # 0

(* C2: every circle createCircles builds has its centre in                 *)
(* [maxRadius, w - maxRadius] x [maxRadius, h - maxRadius], so its disk    *)
(* starts inside the viewport.                                             *)
C2_CentreInsideMargins ==
    \A i \in 1..Len(created) :
      /\ BuiltMaxRadius <= created[i].xPos
      /\ created[i].xPos <= builtFrom.w - BuiltMaxRadius
      /\ BuiltMaxRadius <= created[i].yPos
      /\ created[i].yPos <= builtFrom.h - BuiltMaxRadius
      /\ created[i].xPos - created[i].radius >= 0
      /\ created[i].xPos + created[i].radius <= builtFrom.w
      /\ created[i].yPos - created[i].radius >= 0
      /\ created[i].yPos + created[i].radius <= builtFrom.h

(* C3: every circle createCircles builds has a strictly positive radius    *)
(* in [minRadius, maxRadius].                                              *)
C3_RadiusInRange ==
    \A i \in 1..Len(created) :
      /\ created[i].radius > 0
      /\ BuiltMinRadius <= created[i].radius
      /\ created[i].radius <= BuiltMaxRadius

(* C4: a frame's markers are two for each pair i < j whose centre distance *)
(* is at most the sum of the radii (tangent pairs included), none for any  *)
(* other pair, and nothing else: 2 x the number of overlapping pairs.      *)
C4_TwoMarkersPerOverlappingPair ==
    FrameShown =>
      /\ \A i \in Indices, j \in Indices :
           Cardinality(MarkersOf(i, j)) =
             IF i < j /\ Touching(i, j) THEN 2 ELSE 0
      /\ Len(markers) =
           2 * Cardinality({p \in Indices \X Indices :
                              p[1] < p[2] /\ Touching(p[1], p[2])})

\* three circles in a frame: a tangent pair, an apart pair, a crossing pair
C4_Witness ==
    /\ FrameShown
    /\ Len(circles) = 3
    /\ \E i \in Indices, j \in Indices :
         /\ i < j
         /\ circles[i].radius > 0 /\ circles[j].radius > 0
         /\ DistSq(circles[i], circles[j]) = Sq(circles[i].radius + circles[j].radius)
         /\ Cardinality(MarkersOf(i, j)) = 2
    /\ \E i \in Indices, j \in Indices :
         /\ i < j
         /\ ~Touching(i, j)
         /\ MarkersOf(i, j) = {}
    /\ \E i \in Indices, j \in Indices :
         /\ i < j
         /\ DistSq(circles[i], circles[j]) < Sq(circles[i].radius + circles[j].radius)
         /\ Cardinality(MarkersOf(i, j)) = 2

(* C5: every marker of a frame lies on both circles of its pair: at        *)
(* distance rA from A's centre and rB from B's, so the cosine fed to acos  *)
(* is in [-1, 1] for every pair that passes the overlap test.  Stated for  *)
(* the pairs of two positive radii and distinct centres: a zero radius is  *)
(* C3's case and a zero distance C6's.                                     *)
C5_MarkersOnBothCircles ==
    FrameShown =>
      \A k \in 1..Len(markers) :
        LET a == circles[markers[k].pair[1]]
            b == circles[markers[k].pair[2]]
        IN a.radius > 0 /\ b.radius > 0 /\ DistSq(a, b) > 0 =>
             /\ OnCircle(markers[k].point, a.xPos, a.yPos, a.radius)
             /\ OnCircle(markers[k].point, b.xPos, b.yPos, b.radius)

(* C6: no marker is drawn at coordinates that come from a division by zero *)
(* in the cosine (concentric circles, or a first circle of radius 0).      *)
C6_NoMarkerFromDivisionByZero ==
    \A k \in 1..Len(markers) : ~markers[k].point.divByZero

(* C7: the circle set is only ever built from a positive count and a       *)
(* non-negative speed, whatever the setters were given.                    *)
C7_BuiltFromValidParameters ==
    hasCircles => builtFrom.circlesNum > 0 /\ builtFrom.circleSpeed >= 0

(* C8: once the loop runs, a next frame stays requested, whatever resize   *)
(* or panel events occur: no event stops the loop for good.                *)
C8_LoopKeepsRunning ==
    phase = "running" => pending # {}

(* C9: a method called before what it needs exists throws, and the failed  *)
(* call leaves the circle set as it was: setCanvasSize without a canvas;   *)
(* createCircles, checkBounce, clearCanvas without viewport dimensions;    *)
(* updateCircles, getIntersection without a circle set; drawCircle,        *)
(* clearCanvas, updateCircles without a drawing context.                   *)
NoDims == w = 0 \/ h = 0

Failed(msg) == lastErr' = msg /\ circles' = circles /\ hasCircles' = hasCircles

C9_FailsFast ==
    [][ /\ (~cnv /\ CallSetCanvasSize) => Failed("no cnv")
        /\ (NoDims /\ CallCreateCircles) => Failed("no h or w")
        /\ (NoDims /\ CallCheckBounce) => Failed("no h or w")
        /\ (~ctx /\ CallClearCanvas) => Failed("no ctx")
        /\ (ctx /\ NoDims /\ CallClearCanvas) => Failed("no h or w")
        /\ (~hasCircles /\ CallUpdateCircles) => Failed("no circles")
        /\ (hasCircles /\ ~ctx /\ CallUpdateCircles) => Failed("no ctx")
        /\ (~hasCircles /\ CallGetIntersection) => Failed("no circles")
        /\ (~ctx /\ CallDrawCircle) => Failed("no ctx")
      ]_vars

\* createCircles has failed for want of dimensions and the set built earlier
\* is still there
C9_Witness ==
    /\ phase = "api"
    /\ lastErr = "no h or w"
    /\ NoDims
    /\ hasCircles
    /\ Len(circles) = 1
    /\ circles = created

(* C10: a step in which the speed, the count or the marker colour is set   *)
(* leaves the circle set as it is; the circles createCircles builds have   *)
(* the speed in force when it runs; the markers a frame draws have the     *)
(* colour in force when the frame runs.                                    *)
SettingChanged ==
    \/ circlesNum' # circlesNum
    \/ circleSpeed' # circleSpeed
    \/ intersectionFillColor' # intersectionFillColor

C10_SettersTakeEffectLater ==
    [][ phase = "running" =>
          /\ SettingChanged =>
               /\ circles' = circles
               /\ hasCircles' = hasCircles
               /\ created' = created
               /\ builtFrom' = builtFrom
          /\ builtFrom' # builtFrom =>
               /\ builtFrom'.circleSpeed = circleSpeed
               /\ \A i \in 1..Len(circles') :
                    SpeedSq(circles'[i]) = Sq(circleSpeed)
          /\ markers' # markers =>
               \A k \in 1..Len(markers') :
                 markers'[k].fillColor = intersectionFillColor
      ]_vars

\* a frame has drawn its markers in a colour a setter chose (the constructor
\* got "#ffffff"), while the speed and the count set since the circles were
\* built have changed none of them
C10_Witness ==
    /\ FrameShown
    /\ age > 1
    /\ markers # <<>>
    /\ \A k \in 1..Len(markers) : markers[k].fillColor = "#ff0000"
    /\ intersectionFillColor = "#ff0000"
    /\ circleSpeed # builtFrom.circleSpeed
    /\ circlesNum # builtFrom.circlesNum
    /\ Len(circles) = builtFrom.circlesNum
    /\ \A i \in Indices : SpeedSq(circles[i]) = Sq(builtFrom.circleSpeed)

(* C11: a frame never changes a circle's radius or colour, nor the number  *)
(* or the order of the circles; of a circle it changes only xPos, yPos and *)
(* the signs of velocityX and velocityY.                                   *)
TickStep == age' = age + 1 /\ Tick

C11_TickKeepsIdentity ==
    [][ TickStep =>
          /\ Len(circles') = Len(circles)
          /\ \A i \in Indices :
               /\ circles'[i].radius = circles[i].radius
               /\ circles'[i].color = circles[i].color
               /\ circles'[i].velocityX \in {circles[i].velocityX, -circles[i].velocityX}
               /\ circles'[i].velocityY \in {circles[i].velocityY, -circles[i].velocityY}
               /\ DOMAIN circles'[i] = DOMAIN circles[i]
      ]_vars

\* three circles of three colours and radii have gone through frames: one
\* has moved on both axes and bounced, and each is still what it was built as
C11_Witness ==
    /\ FrameShown
    /\ age > 2
    /\ Len(circles) = 3
    /\ Cardinality({circles[i].color : i \in Indices}) = 3
    /\ Cardinality({circles[i].radius : i \in Indices}) = 3
    /\ \A i \in Indices :
         /\ circles[i].radius = created[i].radius
         /\ circles[i].color = created[i].color
    /\ \E i \in Indices :
         /\ circles[i].xPos # created[i].xPos
         /\ circles[i].yPos # created[i].yPos
         /\ circles[i].velocityY = -created[i].velocityY
         /\ circles[i].velocityY # 0

(* C12: checkBounce negates velocityX exactly when the disk is beyond the  *)
(* right wall moving right or beyond the left wall moving left, and        *)
(* velocityY likewise with the bottom and top walls; each axis is decided  *)
(* on its own, and in every other case the component is left as it was.    *)
PastWall(pos, radius, velocity, side) ==
    \/ (pos + radius > side /\ velocity > 0)
    \/ (pos - radius < 0 /\ velocity < 0)

C12_BounceCondition ==
    [][ TickStep =>
          \A i \in Indices :
            /\ circles'[i].velocityX =
                 IF PastWall(circles[i].xPos, circles[i].radius, circles[i].velocityX, w)
                 THEN -circles[i].velocityX ELSE circles[i].velocityX
            /\ circles'[i].velocityY =
                 IF PastWall(circles[i].yPos, circles[i].radius, circles[i].velocityY, h)
                 THEN -circles[i].velocityY ELSE circles[i].velocityY
      ]_vars

\* the last frame found a circle beyond the bottom wall and within the side
\* walls, moving on both axes: it now moves up, and sideways as before
C12_Witness ==
    /\ FrameShown
    /\ lastErr = ""
    /\ \E i \in Indices :
         LET xBefore == circles[i].xPos - circles[i].velocityX
             yBefore == circles[i].yPos - circles[i].velocityY
         IN /\ yBefore + circles[i].radius > h
            /\ circles[i].velocityY < 0
            /\ circles[i].velocityY = -created[i].velocityY
            /\ xBefore - circles[i].radius >= 0
            /\ xBefore + circles[i].radius <= w
            /\ circles[i].velocityX # 0
            /\ circles[i].radius > 0

(* C13: in a frame the bounce test reads a circle's position from before   *)
(* the frame's move, and the move adds the velocity the test left; so a    *)
(* circle whose disk started inside the viewport, the viewport unchanged   *)
(* since, is at any time beyond a wall by at most the magnitude of its     *)
(* velocity on that axis.                                                  *)
StartedInside(i) ==
    /\ created[i].xPos - created[i].radius >= 0
    /\ created[i].xPos + created[i].radius <= builtFrom.w
    /\ created[i].yPos - created[i].radius >= 0
    /\ created[i].yPos + created[i].radius <= builtFrom.h

OvershootBounded ==
    (hasCircles /\ w = builtFrom.w /\ h = builtFrom.h) =>
      \A i \in Indices :
        StartedInside(i) =>
          /\ circles[i].xPos + circles[i].radius <= w + Abs(circles[i].velocityX)
          /\ circles[i].xPos - circles[i].radius >= -Abs(circles[i].velocityX)
          /\ circles[i].yPos + circles[i].radius <= h + Abs(circles[i].velocityY)
          /\ circles[i].yPos - circles[i].radius >= -Abs(circles[i].velocityY)

C13_BounceBeforeMove ==
    [][ /\ TickStep =>
             \A i \in Indices :
               /\ circles'[i].xPos = circles[i].xPos + circles'[i].velocityX
               /\ circles'[i].yPos = circles[i].yPos + circles'[i].velocityY
               /\ circles'[i].velocityX # circles[i].velocityX =>
                    PastWall(circles[i].xPos, circles[i].radius, circles[i].velocityX, w)
               /\ circles'[i].velocityY # circles[i].velocityY =>
                    PastWall(circles[i].yPos, circles[i].radius, circles[i].velocityY, h)
        /\ OvershootBounded'
      ]_vars

\* a circle of positive radius that started inside the viewport is beyond
\* the right wall after a frame, by no more than its horizontal speed
C13_Witness ==
    /\ FrameShown
    /\ w = builtFrom.w /\ h = builtFrom.h
    /\ \E i \in Indices :
         /\ StartedInside(i)
         /\ circles[i].radius > 0
         /\ circles[i].xPos + circles[i].radius > w
         /\ circles[i].xPos + circles[i].radius <= w + Abs(circles[i].velocityX)

(* C14: a circle moving right whose right edge is past the right wall has  *)
(* its velocityX negated by the frame's bounce check, and from then on     *)
(* velocityX stays negative, frame after frame, until the circle's left    *)
(* edge is past the left wall.                                             *)
SameCircleSet == created' = created /\ builtFrom' = builtFrom /\ age' = age

C14_ReflectedUntilNextWall ==
    [][ /\ TickStep =>
             \A i \in Indices :
               /\ (circles[i].velocityX > 0 /\ circles[i].xPos + circles[i].radius > w) =>
                    /\ circles'[i].velocityX = -circles[i].velocityX
                    /\ circles'[i].velocityX < 0
               /\ (circles[i].velocityX < 0 /\ circles[i].xPos - circles[i].radius >= 0) =>
                    circles'[i].velocityX = circles[i].velocityX
        /\ SameCircleSet =>
             /\ Len(circles') = Len(circles)
             /\ \A i \in Indices : circles'[i].velocityX = circles[i].velocityX
      ]_vars

\* a circle built moving right has met the right wall and has since moved
\* left for two frames, back to where it was built, clear of the left wall
C14_Witness ==
    /\ FrameShown
    /\ age = 4
    /\ \E i \in Indices :
         /\ created[i].velocityX > 0
         /\ circles[i].velocityX = -created[i].velocityX
         /\ circles[i].xPos = created[i].xPos
         /\ circles[i].xPos - circles[i].radius >= 0
         /\ circles[i].radius > 0

(* C15: a frame clears the surface, then bounce-checks, moves and draws    *)
(* every circle, then detects the intersections and draws their markers,   *)
(* then requests the next frame: the canvas shows this frame's disks only, *)
(* at the moved positions; the markers are those of the moved positions;   *)
(* and a frame that threw has requested nothing.                           *)
BeforeMove(circle) ==
    [circle EXCEPT !.xPos = circle.xPos - circle.velocityX,
                   !.yPos = circle.yPos - circle.velocityY]

C15_FrameOrder ==
    [][ /\ TickStep =>
             /\ lastErr' = ""
             /\ Len(disks') = Len(circles')
             /\ \A i \in 1..Len(circles') :
                  /\ disks'[i].x = circles'[i].xPos
                  /\ disks'[i].y = circles'[i].yPos
                  /\ disks'[i].radius = circles'[i].radius
             /\ \A i \in 1..Len(circles'), j \in 1..Len(circles') :
                  Cardinality(MarkersOf(i, j)') =
                    IF i < j /\ Touching(i, j)' THEN 2 ELSE 0
             /\ \A k \in 1..Len(markers') :
                  /\ markers'[k].pair[1] < markers'[k].pair[2]
                  /\ ~markers'[k].point.nan =>
                       /\ markers'[k].point.cx = circles'[markers'[k].pair[1]].xPos
                       /\ markers'[k].point.cy = circles'[markers'[k].pair[1]].yPos
             /\ Cardinality(pending') = Cardinality(pending)
             /\ pending' # {}
        /\ (phase = "running" /\ lastErr' # "") => pending' \subseteq pending
      ]_vars

\* a frame has drawn the three disks where the circles now are, and no
\* marker for a pair of positive radii that overlapped before the frame's
\* move and is apart after it
C15_Witness ==
    /\ FrameShown
    /\ lastErr = ""
    /\ age > 1
    /\ pending # {}
    /\ Len(circles) = 3
    /\ Len(disks) = 3
    /\ \A i \in Indices : disks[i].x = circles[i].xPos /\ disks[i].y = circles[i].yPos
    /\ \E i \in Indices, j \in Indices :
         /\ i < j
         /\ circles[i].radius > 0
         /\ circles[j].radius > 0
         /\ ~Touching(i, j)
         /\ DistSq(BeforeMove(circles[i]), BeforeMove(circles[j])) <=
              Sq(circles[i].radius + circles[j].radius)
         /\ MarkersOf(i, j) = {}

(* C16: for a pair of positive radii that is tangent from outside          *)
(* (d = rA + rB) the cosine drawIntersection computes is 1, the angle of   *)
(* rotation is 0 and the two markers are one point: the point of A's       *)
(* circle on the segment from A's centre to B's.                           *)
TangentOutside(i, j) ==
    /\ i < j
    /\ circles[i].radius > 0
    /\ circles[j].radius > 0
    /\ DistSq(circles[i], circles[j]) = Sq(circles[i].radius + circles[j].radius)

\* the point is (cx, cy) + (dx, dy) * rA / (rA + rB), with no sqrt part
AtTangency(pt, a, b) ==
    /\ ~pt.nan
    /\ pt.rad = 0
    /\ pt.cx = a.xPos /\ pt.cy = a.yPos
    /\ pt.xp * (a.radius + b.radius) = (b.xPos - a.xPos) * a.radius * pt.den
    /\ pt.yp * (a.radius + b.radius) = (b.yPos - a.yPos) * a.radius * pt.den

C16_TangentPointsCoincide ==
    FrameShown =>
      \A i \in Indices, j \in Indices :
        TangentOutside(i, j) =>
          /\ Cardinality(MarkersOf(i, j)) = 2
          /\ \A k \in MarkersOf(i, j) :
               AtTangency(markers[k].point, circles[i], circles[j])

\* a frame shows a tangent pair of positive radii with its two markers
C16_Witness ==
    /\ FrameShown
    /\ lastErr = ""
    /\ \E i \in Indices, j \in Indices :
         /\ TangentOutside(i, j)
         /\ circles[i].radius # circles[j].radius
         /\ Cardinality(MarkersOf(i, j)) = 2
         /\ \A k \in MarkersOf(i, j) : ~markers[k].point.nan

(* C17: the constructor leaves exactly one animation-frame callback        *)
(* pending; with non-zero viewport dimensions every event keeps it at      *)
(* exactly one; and only a frame ever changes what is pending: a resize, a *)
(* setter or a panel update leaves the pending callback as it is (the      *)
(* panel's extra frame is cancelled again, the frame scheduled before is   *)
(* not).                                                                   *)
OneLoop == Cardinality(pending) = 1

C17_ExactlyOnePending ==
    [][ /\ (phase = "new" /\ phase' = "running") => OneLoop'
        /\ (phase = "running" /\ OneLoop /\ ~NoDims) => OneLoop'
        /\ phase = "running" => (pending' = pending \/ Tick)
      ]_vars

\* the loop has run frames on a circle set built from the panel's values,
\* and one callback is pending
C17_Witness ==
    /\ FrameShown
    /\ lastErr = ""
    /\ OneLoop
    /\ age > 1
    /\ builtFrom.circleSpeed = -5
    /\ Len(circles) = 3
    /\ intersectionFillColor = "#ff0000"

====
